---- MODULE Spec2Model ----
(***************************************************************************)
(* LuStA Messenger (src/main.py, src/database.py): the connection table,   *)
(* the session table, the users and messages tables, and one handler task  *)
(* per WebSocket connection.                                               *)
(*                                                                         *)
(* Granularity.  The handlers are asyncio coroutines: the code between two *)
(* awaits runs without interleaving.  The SQLAlchemy calls are synchronous *)
(* and are no suspension points.  The awaits that let other tasks run are  *)
(* websocket.receive_text() (main.py:156), the send_text() to the          *)
(* recipient's socket (main.py:191) and the send_text() to the handler's   *)
(* own socket (main.py:173, 205, 214): each is a step of its own.          *)
(*                                                                         *)
(* Environment.  datetime.utcnow() reads the wall clock, which may be set  *)
(* back: a new message carries any timestamp.  send_text() to a socket     *)
(* whose peer is gone either raises or returns with the frame lost,        *)
(* depending on the ASGI server: both are modelled.  A database call may   *)
(* fail (raise): the SELECT of main.py:171, the commits of 187, 202 and the *)
(* SELECT that reloads new_message after a commit (196-197, 208-209).      *)
(***************************************************************************)
EXTENDS Naturals, Sequences, FiniteSets

\* ------------------------------------------------------------- bounds
MaxConns == 2
MaxFrames == 1
MaxRows == 3
MaxTime == 2
MaxQueued == 2

\* the usernames: one of them is a decimal numeral, which a JSON number in the
\* "to" of a frame matches in the lookup of main.py:171
Names == {"alice", "5"}
Conns == 1..MaxConns

VARIABLES
    users,               \* the users table: a sequence of rows, id = position
    messages,            \* the messages table: a sequence of rows, id = position
    user_sessions,       \* main.py:24  username -> user id
    active_connections,  \* main.py:23  username -> [websocket, user_id]
    ws,                  \* per WebSocket: the path's username, the handler's user_id, the peer
                         \* (client: "none", "open", "stalled", "closed")
    pc,                  \* per WebSocket: where its handler task stands
    pending,             \* per WebSocket: the push its handler is awaiting (main.py:191)
    reply,               \* per WebSocket: the frame its handler is sending to it
                         \* (main.py:173, 205, 214), <<>> when it is sending none
    inbox,               \* per WebSocket: frames the client sent, not yet received
    outbox,              \* per WebSocket: frames delivered to the client
    nframes              \* per WebSocket: frames its client submitted so far (bounds the run)

vars == <<users, messages, user_sessions, active_connections, ws, pc, pending,
          reply, inbox, outbox, nframes>>

\* ------------------------------------------------- tables and lookups

\* database.py:11-17: a users row.  The bcrypt hash is not stored in the model:
\* whether check_password accepts is an input of Login
User(id, username) == [id |-> id, username |-> username]

\* db.query(User).filter(User.username == username).first(): the row's id, 0 for None
UserIdByName(username) ==
    IF \E i \in 1..Len(users) : users[i].username = username
    THEN CHOOSE i \in 1..Len(users) : users[i].username = username
    ELSE 0

\* the JSON value under "to" in a frame (main.py:162): a string, or a number
\* given by its decimal text
Str(text) == [json |-> "string", text |-> text]
Num(text) == [json |-> "number", text |-> text]

\* a text with a lone surrogate (the JSON escape \ud800): print (main.py:165)
\* and the binding of it to a query (main.py:171) raise UnicodeEncodeError
Surrogate == "\\ud800"
Encodable(to) == to.text # Surrogate

\* main.py:171: db.query(User).filter(User.username == to_username).first();
\* sqlite compares the bound value with the TEXT column as text: the number 5
\* finds the user '5'
RecipientId(to) == UserIdByName(to.text)

\* database.py:37: is_read = Column(Integer, default=0)
IsReadDefault == 0
\* main.py:122 and main.py:201: the value both writers store
IsReadSet == 1

\* mutant: the column default set to 1, a row is stored as read
MessageRow_DefaultRead(id, sender_id, receiver_id, content, timestamp) ==
    [id |-> id, sender_id |-> sender_id, receiver_id |-> receiver_id,
     content |-> content, timestamp |-> timestamp, is_read |-> 1]

\* main.py:180-185 with the column defaults of database.py:29-37
MessageRow(id, sender_id, receiver_id, content, timestamp) ==
    [id |-> id, sender_id |-> sender_id, receiver_id |-> receiver_id,
     content |-> content, timestamp |-> timestamp, is_read |-> IsReadDefault]

\* mutant: sender_id and receiver_id passed the wrong way round
PersistMessage_SwapIds(msgs, sender_id, receiver_id, content, timestamp) ==
    Append(msgs, MessageRow(Len(msgs) + 1, receiver_id, sender_id, content, timestamp))

\* mutant: the new row is put before the rows already stored
PersistMessage_Prepend(msgs, sender_id, receiver_id, content, timestamp) ==
    <<MessageRow(Len(msgs) + 1, sender_id, receiver_id, content, timestamp)>> \o msgs

\* main.py:186-187: db.add(new_message); db.commit()
PersistMessage(msgs, sender_id, receiver_id, content, timestamp) ==
    Append(msgs, MessageRow(Len(msgs) + 1, sender_id, receiver_id, content, timestamp))

\* datetime.utcnow() (main.py:184): the wall clock, which may have been set
\* back since the last row was stored
UtcNow == 1..MaxTime

\* main.py:144: websocket.close(code=1008, ...)
CloseUnauthenticated == 1008

\* ------------------------------------------------- the connection table

NoPending == [to |-> Str(""), target |-> 0, message_id |-> 0]

\* main.py:23-24: the empty dict
EmptyTable == [n \in {} |-> 0]

\* main.py:147-150
RegisterConn(table, username, c, user_id) ==
    [n \in (DOMAIN table) \cup {username} |->
        IF n = username THEN [websocket |-> c, user_id |-> user_id] ELSE table[n]]

\* mutant: the except branches without the del
Deregister_Keep(table, username, c) == table

\* main.py:222-223 and 226-227: if username in active_connections: del ...
\* (c is the exiting handler's socket; the code does not look at it)
Deregister(table, username, c) ==
    IF username \in DOMAIN table
    THEN [n \in (DOMAIN table) \ {username} |-> table[n]]
    ELSE table

\* main.py:64
SetSession(table, username, user_id) ==
    [n \in (DOMAIN table) \cup {username} |-> IF n = username THEN user_id ELSE table[n]]

\* ------------------------------------------------------------- frames

\* a JSON object with "action": "send_message", "to" and "message"
SendFrame(to, text) == [action |-> "send_message", to |-> to, message |-> text]
\* a JSON object with "action": "get_online_users"
OnlineFrame == [action |-> "get_online_users", to |-> Str(""), message |-> ""]
\* a JSON object whose "action" is another value, or that has none
OtherFrame == [action |-> "other", to |-> Str(""), message |-> ""]
\* a text that parses to a JSON value that is no object: a number, a list,
\* null, a string
NotObjectFrame == [action |-> "notobject", to |-> Str(""), message |-> ""]
\* a text that json.loads rejects
MalformedFrame == [action |-> "malformed", to |-> Str(""), message |-> ""]

\* the values of "to" a client may send: a username as a string, a numeral
\* username as a number, a string with a lone surrogate
Numerals == {"5"}
Tos == {Str(u) : u \in Names} \cup {Num(u) : u \in Numerals} \cup {Str(Surrogate)}

\* the frames a client may submit as the n-th frame of its socket: the texts
\* are numbered by submission (no branch of the code reads the text), which
\* tells the messages of one socket apart
Frames(n) == {SendFrame(t, n) : t \in Tos}
                 \cup {OnlineFrame, OtherFrame, NotObjectFrame, MalformedFrame}

\* main.py:173-176: the message names the recipient as str() prints it
ErrorFrame(to) == [type |-> "error", message |-> to.text]
\* main.py:191-198
NewMessageFrame(from, from_id, m) ==
    [type |-> "new_message", from |-> from, from_id |-> from_id,
     message |-> m.content, timestamp |-> m.timestamp, message_id |-> m.id]
\* main.py:205-210
MessageSentFrame(to, m) ==
    [type |-> "message_sent", to |-> to, message_id |-> m.id, timestamp |-> m.timestamp]
\* main.py:213-218
OnlineUsersFrame(table) ==
    [type |-> "online_users", users |-> DOMAIN table, count |-> Cardinality(DOMAIN table)]

\* where a handler task that has registered and not returned may stand:
\* at receive_text (156), in the push (191), in a send to its own socket
Running == {"recv", "push", "reply"}

\* send_text on socket c: delivered while the peer is there; awaited without
\* end while the peer has stopped reading (the call has no timeout); otherwise
\* the call raises or returns with the frame lost
PeerThere(c) == ws[c].client = "open" /\ pc[c] \in Running
SendOutcomes(c) ==
    IF PeerThere(c) THEN {"sent"}
    ELSE IF ws[c].client = "stalled" THEN {}
    ELSE {"raise", "lost"}

Deliver(out, c, frame) == [out EXCEPT ![c] = Append(@, frame)]

\* ------------------------------------------------------------- Init

Init ==
    /\ users = <<>>
    /\ messages = <<>>
    /\ user_sessions = EmptyTable
    /\ active_connections = EmptyTable
    /\ ws = [c \in Conns |-> [username |-> "", user_id |-> 0, client |-> "none",
                              close_calls |-> 0, close_code |-> 0]]
    /\ pc = [c \in Conns |-> "idle"]
    /\ pending = [c \in Conns |-> NoPending]
    /\ reply = [c \in Conns |-> <<>>]
    /\ inbox = [c \in Conns |-> <<>>]
    /\ outbox = [c \in Conns |-> <<>>]
    /\ nframes = [c \in Conns |-> 0]

\* ----------------------------------------------- the request handlers

\* main.py:31-50: POST /register
Register(username) ==
    /\ UserIdByName(username) = 0
    /\ users' = Append(users, User(Len(users) + 1, username))
    /\ UNCHANGED <<messages, user_sessions, active_connections, ws, pc, pending,
                   reply, inbox, outbox, nframes>>

\* main.py:53-70: POST /login; a 401 changes nothing
Login(username, password_ok) ==
    /\ UserIdByName(username) # 0
    /\ password_ok
    /\ user_sessions' = SetSession(user_sessions, username, UserIdByName(username))
    /\ UNCHANGED <<users, messages, active_connections, ws, pc, pending,
                   reply, inbox, outbox, nframes>>

\* mutant: the filter without its second disjunct
InPair_OneDirection(m, user_id, partner_id) ==
    m.sender_id = user_id /\ m.receiver_id = partner_id

\* main.py:114-116: the filter of the pair's conversation
InPair(m, user_id, partner_id) ==
    \/ (m.sender_id = user_id /\ m.receiver_id = partner_id)
    \/ (m.sender_id = partner_id /\ m.receiver_id = user_id)

\* order_by(Message.timestamp.asc()): rows of equal timestamp stay in id order
RECURSIVE InsertByTimestamp(_, _)
InsertByTimestamp(sorted, m) ==
    IF sorted = <<>> THEN <<m>>
    ELSE IF sorted[Len(sorted)].timestamp <= m.timestamp THEN Append(sorted, m)
    ELSE Append(InsertByTimestamp(SubSeq(sorted, 1, Len(sorted) - 1), m),
                sorted[Len(sorted)])

RECURSIVE OrderByTimestampAsc(_)
OrderByTimestampAsc(rows) ==
    IF rows = <<>> THEN <<>>
    ELSE InsertByTimestamp(OrderByTimestampAsc(SubSeq(rows, 1, Len(rows) - 1)),
                           rows[Len(rows)])

\* main.py:114-117: the rows get_messages loads
QueryMessages(msgs, user_id, partner_id) ==
    LET Hit(m) == InPair(m, user_id, partner_id)
    IN OrderByTimestampAsc(SelectSeq(msgs, Hit))

\* mutant: the loop without the receiver test
MarkRow_AnyReceiver(m, user_id) ==
    IF m.is_read = 0 THEN [m EXCEPT !.is_read = IsReadSet] ELSE m

\* main.py:120-122: the loop over the loaded rows, one row
MarkRow(m, user_id) ==
    IF m.receiver_id = user_id /\ m.is_read = 0
    THEN [m EXCEPT !.is_read = IsReadSet]
    ELSE m

\* main.py:119-123: the table after the loop and db.commit()
MarkRead(msgs, user_id, partner_id) ==
    LET rows == QueryMessages(msgs, user_id, partner_id)
        ids == {rows[k].id : k \in 1..Len(rows)}
    IN [i \in 1..Len(msgs) |->
           IF i \in ids THEN MarkRow(msgs[i], user_id) ELSE msgs[i]]

\* main.py:125-134: the response body, built from the rows after the commit
MessagesResponse(msgs, user_id, partner_id) ==
    LET after == MarkRead(msgs, user_id, partner_id)
        rows == QueryMessages(after, user_id, partner_id)
    IN [k \in 1..Len(rows) |->
           [id |-> rows[k].id, sender_id |-> rows[k].sender_id,
            sender_username |-> users[rows[k].sender_id].username,
            content |-> rows[k].content, timestamp |-> rows[k].timestamp,
            is_read |-> (rows[k].is_read # 0)]]

UserIds == 1..Cardinality(Names)

\* main.py:112-134: GET /messages/{user_id}/{partner_id}
GetMessages(user_id, partner_id) ==
    /\ messages' = MarkRead(messages, user_id, partner_id)
    /\ UNCHANGED <<users, user_sessions, active_connections, ws, pc, pending,
                   reply, inbox, outbox, nframes>>

\* ---------------------------------------------- the WebSocket handler

\* the handler returns (main.py:145, 220-227): the server closes the socket
Closed(sockets, c) == [sockets EXCEPT ![c].client = "closed"]

\* mutant: the handler returns without the del of main.py:222-223, 226-227
HandlerExit_NoCleanup(c) ==
    /\ pc' = [pc EXCEPT ![c] = "done"]
    /\ active_connections' = active_connections
    /\ ws' = Closed(ws, c)
    /\ pending' = [pending EXCEPT ![c] = NoPending]
    /\ reply' = [reply EXCEPT ![c] = <<>>]
    /\ inbox' = [inbox EXCEPT ![c] = <<>>]

\* main.py:220-227: both except branches drop the username's entry and return;
\* the frames the socket still held are gone with it
HandlerExit(c) ==
    /\ pc' = [pc EXCEPT ![c] = "done"]
    /\ active_connections' = Deregister(active_connections, ws[c].username, c)
    /\ ws' = Closed(ws, c)
    /\ pending' = [pending EXCEPT ![c] = NoPending]
    /\ reply' = [reply EXCEPT ![c] = <<>>]
    /\ inbox' = [inbox EXCEPT ![c] = <<>>]

\* await websocket.send_text(...) on the handler's own socket (main.py:173,
\* 205, 214): the frame is built and the handler is in the call; rest is the
\* frames of c not yet received
SendToSelf(c, frame, rest) ==
    /\ pc' = [pc EXCEPT ![c] = "reply"]
    /\ reply' = [reply EXCEPT ![c] = <<frame>>]
    /\ pending' = [pending EXCEPT ![c] = NoPending]
    /\ inbox' = [inbox EXCEPT ![c] = rest]
    /\ UNCHANGED <<active_connections, ws>>

FirstIdle == CHOOSE c \in Conns : pc[c] = "idle" /\ \A d \in Conns : pc[d] = "idle" => c <= d

\* mutant: the handler without the test of main.py:143-145
Connect_NoAuth(username) ==
    /\ \E c \in Conns : pc[c] = "idle"
    /\ LET c == FirstIdle
           user_id == IF username \in DOMAIN user_sessions
                      THEN user_sessions[username] ELSE 0
       IN /\ active_connections' =
                 RegisterConn(active_connections, username, c, user_id)
          /\ ws' = [ws EXCEPT ![c] = [username |-> username, user_id |-> user_id,
                                       client |-> "open",
                                       close_calls |-> 0, close_code |-> 0]]
          /\ pc' = [pc EXCEPT ![c] = "recv"]
    /\ UNCHANGED <<users, messages, user_sessions, pending, reply, inbox, outbox,
                   nframes>>

\* main.py:137-152: a client opens /ws/{username}
Connect(username) ==
    /\ \E c \in Conns : pc[c] = "idle"
    /\ LET c == FirstIdle IN
       IF username \in DOMAIN user_sessions
       THEN /\ active_connections' =
                   RegisterConn(active_connections, username, c, user_sessions[username])
            /\ ws' = [ws EXCEPT ![c] = [username |-> username,
                                         user_id |-> user_sessions[username],
                                         client |-> "open",
                                         close_calls |-> 0, close_code |-> 0]]
            /\ pc' = [pc EXCEPT ![c] = "recv"]
       ELSE /\ ws' = [ws EXCEPT ![c] = [username |-> username, user_id |-> 0,
                                         client |-> "closed",
                                         close_calls |-> 1, close_code |-> CloseUnauthenticated]]
            /\ pc' = [pc EXCEPT ![c] = "done"]
            /\ UNCHANGED active_connections
    /\ UNCHANGED <<users, messages, user_sessions, pending, reply, inbox, outbox,
                   nframes>>

\* the frames submitted on sockets 1..c
RECURSIVE FramesSubmitted(_, _)
FramesSubmitted(counts, c) ==
    IF c = 0 THEN 0 ELSE counts[c] + FramesSubmitted(counts, c - 1)

\* the client writes a frame to its socket
ClientSend(c, frame) ==
    /\ pc[c] \in Running
    /\ ws[c].client = "open"
    /\ FramesSubmitted(nframes, MaxConns) < MaxFrames
    /\ inbox' = [inbox EXCEPT ![c] = Append(@, frame)]
    /\ nframes' = [nframes EXCEPT ![c] = @ + 1]
    /\ UNCHANGED <<users, messages, user_sessions, active_connections, ws, pc,
                   pending, reply, outbox>>

\* the client closes its socket (or the transport breaks)
ClientClose(c) ==
    /\ pc[c] \in Running
    /\ ws[c].client = "open"
    /\ ws' = [ws EXCEPT ![c].client = "closed"]
    /\ UNCHANGED <<users, messages, user_sessions, active_connections, pc, pending,
                   reply, inbox, outbox, nframes>>

\* main.py:156, 220-223: receive_text raises WebSocketDisconnect
RecvDisconnect(c) ==
    /\ pc[c] = "recv"
    /\ inbox[c] = <<>>
    /\ ws[c].client = "closed"
    /\ HandlerExit(c)
    /\ UNCHANGED <<users, messages, user_sessions, outbox, nframes>>

\* mutant: a frame that does not parse is skipped and the loop goes on
RecvMalformed_Skip(c) ==
    /\ pc[c] = "recv"
    /\ inbox[c] # <<>>
    /\ Head(inbox[c]).action = "malformed"
    /\ inbox' = [inbox EXCEPT ![c] = Tail(@)]
    /\ UNCHANGED <<users, messages, user_sessions, active_connections, ws, pc,
                   pending, reply, outbox, nframes>>

\* main.py:156-157, 224-227: json.loads raises on a frame that is no JSON
RecvMalformed(c) ==
    /\ pc[c] = "recv"
    /\ inbox[c] # <<>>
    /\ Head(inbox[c]).action = "malformed"
    /\ HandlerExit(c)
    /\ UNCHANGED <<users, messages, user_sessions, outbox, nframes>>

\* main.py:157-159, 224-227: json.loads returns a value that is no dict and
\* message_data.get raises AttributeError
RecvNotObject(c) ==
    /\ pc[c] = "recv"
    /\ inbox[c] # <<>>
    /\ Head(inbox[c]).action = "notobject"
    /\ HandlerExit(c)
    /\ UNCHANGED <<users, messages, user_sessions, outbox, nframes>>

\* mutant: an action that is neither of the two is answered with an error frame
RecvOther_Error(c) ==
    /\ pc[c] = "recv"
    /\ inbox[c] # <<>>
    /\ Head(inbox[c]).action = "other"
    /\ SendToSelf(c, ErrorFrame(Str("")), Tail(inbox[c]))
    /\ UNCHANGED <<users, messages, user_sessions, outbox, nframes>>

\* main.py:159-161, 212: the frame is a JSON object and neither branch of the
\* if/elif is taken
RecvOther(c) ==
    /\ pc[c] = "recv"
    /\ inbox[c] # <<>>
    /\ Head(inbox[c]).action = "other"
    /\ inbox' = [inbox EXCEPT ![c] = Tail(@)]
    /\ UNCHANGED <<users, messages, user_sessions, active_connections, ws, pc,
                   pending, reply, outbox, nframes>>

\* main.py:212-218: the list is built from the table as it is, then the send
\* of 214 starts
RecvGetOnlineUsers(c) ==
    /\ pc[c] = "recv"
    /\ inbox[c] # <<>>
    /\ Head(inbox[c]).action = "get_online_users"
    /\ SendToSelf(c, OnlineUsersFrame(active_connections), Tail(inbox[c]))
    /\ UNCHANGED <<users, messages, user_sessions, outbox, nframes>>

\* main.py:161-177: send_message to a name that is no row of users; the send
\* of 173 starts
RecvSendUnknown(c) ==
    /\ pc[c] = "recv"
    /\ inbox[c] # <<>>
    /\ Head(inbox[c]).action = "send_message"
    /\ Encodable(Head(inbox[c]).to)
    /\ RecipientId(Head(inbox[c]).to) = 0
    /\ SendToSelf(c, ErrorFrame(Head(inbox[c]).to), Tail(inbox[c]))
    /\ UNCHANGED <<users, messages, user_sessions, outbox, nframes>>

\* main.py:161-171 raising, the except branch of 224-227: the print of 165 and
\* the binding of 171 on a text with a lone surrogate, or the SELECT of 171 on
\* a database that is locked
RecvSendLookupFails(c) ==
    /\ pc[c] = "recv"
    /\ inbox[c] # <<>>
    /\ Head(inbox[c]).action = "send_message"
    /\ HandlerExit(c)
    /\ UNCHANGED <<users, messages, user_sessions, outbox, nframes>>

\* main.py:179-187 raising in db.commit(): the except branch of 224-227
RecvSendCommitFails(c) ==
    /\ pc[c] = "recv"
    /\ inbox[c] # <<>>
    /\ Head(inbox[c]).action = "send_message"
    /\ Encodable(Head(inbox[c]).to)
    /\ RecipientId(Head(inbox[c]).to) # 0
    /\ HandlerExit(c)
    /\ UNCHANGED <<users, messages, user_sessions, outbox, nframes>>

\* main.py:161-209 raising after the commit of 187: the session expires
\* new_message on commit (database.py:49), so the read of its timestamp for
\* the frame of 191-198 or 205-210 is a SELECT, which may raise; the row is
\* stored, no send has started and the except branch of 224-227 ends the handler
RecvSendReloadFails(c) ==
    /\ pc[c] = "recv"
    /\ inbox[c] # <<>>
    /\ Head(inbox[c]).action = "send_message"
    /\ Encodable(Head(inbox[c]).to)
    /\ RecipientId(Head(inbox[c]).to) # 0
    /\ \E timestamp \in UtcNow :
         messages' = PersistMessage(messages, ws[c].user_id,
                                    RecipientId(Head(inbox[c]).to),
                                    Head(inbox[c]).message, timestamp)
    /\ HandlerExit(c)
    /\ UNCHANGED <<users, user_sessions, outbox, nframes>>

\* main.py:189-191: the recipient's socket when to_username is a key of the
\* table, else 0; a number is no key of it (the keys are strings)
PushTarget(table, to) ==
    IF to.json = "string" /\ to.text \in DOMAIN table
    THEN table[to.text].websocket
    ELSE 0

\* main.py:161-210 up to the next await: persist, then start the push to an
\* online recipient (191), or the acknowledgment (205)
RecvSendMessage(c) ==
    /\ pc[c] = "recv"
    /\ inbox[c] # <<>>
    /\ Head(inbox[c]).action = "send_message"
    /\ Encodable(Head(inbox[c]).to)
    /\ RecipientId(Head(inbox[c]).to) # 0
    /\ \E timestamp \in UtcNow :
         LET f == Head(inbox[c])
             target == PushTarget(active_connections, f.to)
         IN /\ messages' = PersistMessage(messages, ws[c].user_id,
                                          RecipientId(f.to), f.message, timestamp)
            /\ IF target # 0
               THEN /\ pc' = [pc EXCEPT ![c] = "push"]
                    /\ pending' = [pending EXCEPT ![c] =
                           [to |-> f.to, target |-> target,
                            message_id |-> Len(messages')]]
                    /\ inbox' = [inbox EXCEPT ![c] = Tail(@)]
                    /\ UNCHANGED <<active_connections, ws, reply>>
               ELSE SendToSelf(c, MessageSentFrame(f.to, messages'[Len(messages')]),
                               Tail(inbox[c]))
    /\ UNCHANGED <<users, user_sessions, outbox, nframes>>

\* mutant: the push path writes 0
MarkDelivered_Reset(msgs, message_id) ==
    [msgs EXCEPT ![message_id].is_read = 0]

\* main.py:200-202: new_message.is_read = 1; db.commit()
MarkDelivered(msgs, message_id) ==
    [msgs EXCEPT ![message_id].is_read = IsReadSet]

\* main.py:191-205: send_text to the recipient's socket returns; mark, commit,
\* and the acknowledgment of 205 starts
PushReturns(c) ==
    /\ pc[c] = "push"
    /\ \E o \in SendOutcomes(pending[c].target) \ {"raise"} :
         LET m == messages[pending[c].message_id]
         IN /\ outbox' = IF o = "sent"
                         THEN Deliver(outbox, pending[c].target,
                                      NewMessageFrame(ws[c].username, ws[c].user_id, m))
                         ELSE outbox
            /\ messages' = MarkDelivered(messages, pending[c].message_id)
            /\ SendToSelf(c, MessageSentFrame(pending[c].to, m), inbox[c])
    /\ UNCHANGED <<users, user_sessions, nframes>>

\* main.py:191-202, 224-227: the push returned and the db.commit() of 202 raises
PushCommitFails(c) ==
    /\ pc[c] = "push"
    /\ \E o \in SendOutcomes(pending[c].target) \ {"raise"} :
         outbox' = IF o = "sent"
                   THEN Deliver(outbox, pending[c].target,
                                NewMessageFrame(ws[c].username, ws[c].user_id,
                                                messages[pending[c].message_id]))
                   ELSE outbox
    /\ HandlerExit(c)
    /\ UNCHANGED <<users, messages, user_sessions, nframes>>

\* main.py:191-209, 224-227: the push returned, the commit of 202 is done and
\* the read of new_message for the frame of 205-210, a SELECT since the commit
\* expired it, raises
PushReloadFails(c) ==
    /\ pc[c] = "push"
    /\ \E o \in SendOutcomes(pending[c].target) \ {"raise"} :
         outbox' = IF o = "sent"
                   THEN Deliver(outbox, pending[c].target,
                                NewMessageFrame(ws[c].username, ws[c].user_id,
                                                messages[pending[c].message_id]))
                   ELSE outbox
    /\ messages' = MarkDelivered(messages, pending[c].message_id)
    /\ HandlerExit(c)
    /\ UNCHANGED <<users, user_sessions, nframes>>

\* main.py:191, 220-227: send_text to the recipient's socket raises
PushRaises(c) ==
    /\ pc[c] = "push"
    /\ "raise" \in SendOutcomes(pending[c].target)
    /\ HandlerExit(c)
    /\ UNCHANGED <<users, messages, user_sessions, outbox, nframes>>

\* main.py:173-177, 205-210, 214-218: the send_text to the handler's own socket
\* returns and the loop is back at receive_text
ReplyReturns(c) ==
    /\ pc[c] = "reply"
    /\ \E o \in SendOutcomes(c) \ {"raise"} :
         outbox' = IF o = "sent" THEN Deliver(outbox, c, reply[c][1]) ELSE outbox
    /\ pc' = [pc EXCEPT ![c] = "recv"]
    /\ reply' = [reply EXCEPT ![c] = <<>>]
    /\ UNCHANGED <<users, messages, user_sessions, active_connections, ws, pending,
                   inbox, nframes>>

\* main.py:173, 205, 214, 220-227: the send_text to the handler's own socket
\* raises
ReplyRaises(c) ==
    /\ pc[c] = "reply"
    /\ "raise" \in SendOutcomes(c)
    /\ HandlerExit(c)
    /\ UNCHANGED <<users, messages, user_sessions, outbox, nframes>>

Next ==
    \/ \E u \in Names : Register(u)
    \/ \E u \in Names, ok \in BOOLEAN : Login(u, ok)
    \/ \E a \in UserIds, b \in UserIds : GetMessages(a, b)
    \/ \E u \in Names : Connect(u)
    \/ \E c \in Conns : \E f \in Frames(nframes[c] + 1) : ClientSend(c, f)
    \/ \E c \in Conns : ClientClose(c)
    \/ \E c \in Conns : RecvDisconnect(c)
    \/ \E c \in Conns : RecvMalformed(c)
    \/ \E c \in Conns : RecvNotObject(c)
    \/ \E c \in Conns : RecvOther(c)
    \/ \E c \in Conns : RecvGetOnlineUsers(c)
    \/ \E c \in Conns : RecvSendUnknown(c)
    \/ \E c \in Conns : RecvSendCommitFails(c)
    \/ \E c \in Conns : RecvSendLookupFails(c)
    \/ \E c \in Conns : RecvSendReloadFails(c)
    \/ \E c \in Conns : RecvSendMessage(c)
    \/ \E c \in Conns : PushRaises(c)
    \/ \E c \in Conns : PushReturns(c)
    \/ \E c \in Conns : PushCommitFails(c)
    \/ \E c \in Conns : PushReloadFails(c)
    \/ \E c \in Conns : ReplyRaises(c)
    \/ \E c \in Conns : ReplyReturns(c)

Spec == Init /\ [][Next]_vars

\* ------------------------------------------- a client that stops reading

\* the client of socket c stops reading from it and its buffers are full:
\* from now on a send_text on c does not return
ClientStall(c) ==
    /\ pc[c] \in Running
    /\ ws[c].client = "open"
    /\ ws' = [ws EXCEPT ![c].client = "stalled"]
    /\ UNCHANGED <<users, messages, user_sessions, active_connections, pc, pending,
                   reply, inbox, outbox, nframes>>

NextLive ==
    \/ Next
    \/ \E c \in Conns : ClientStall(c)

\* what the task of socket c can do when the call it awaits has a result
HandlerStep(c) ==
    \/ RecvDisconnect(c) \/ RecvMalformed(c) \/ RecvNotObject(c) \/ RecvOther(c)
    \/ RecvGetOnlineUsers(c) \/ RecvSendUnknown(c) \/ RecvSendLookupFails(c)
    \/ RecvSendCommitFails(c) \/ RecvSendReloadFails(c) \/ RecvSendMessage(c)
    \/ PushRaises(c) \/ PushReturns(c) \/ PushCommitFails(c) \/ PushReloadFails(c)
    \/ ReplyRaises(c) \/ ReplyReturns(c)

\* the event loop resumes every task whose awaited call can return
SpecLive ==
    /\ Init
    /\ [][NextLive]_vars
    /\ \A c \in Conns : WF_vars(HandlerStep(c))

\* ------------------------------------------- the history endpoint alone

\* the columns of a stored row that vary: the users are those of the table,
\* is_read is one of the two values the code writes, and the timestamps come
\* from the wall clock (datetime.utcnow(), main.py:184), which the order of
\* the ids does not bind
Columns == [sender_id : UserIds, receiver_id : UserIds,
            timestamp : 1..MaxTime, is_read : {IsReadDefault, IsReadSet}]

\* a messages table of the rows cols[1], cols[2], ...: id = position
Table(cols) ==
    [i \in DOMAIN cols |->
        [MessageRow(i, cols[i].sender_id, cols[i].receiver_id, i, cols[i].timestamp)
            EXCEPT !.is_read = cols[i].is_read]]

\* both names registered, in this order; any table of up to MaxRows rows
\* between them; nobody connected
InitHistory ==
    /\ users = <<User(1, "alice"), User(2, "5")>>
    /\ \E n \in 0..MaxRows : \E cols \in [1..n -> Columns] : messages = Table(cols)
    /\ user_sessions = EmptyTable
    /\ active_connections = EmptyTable
    /\ ws = [c \in Conns |-> [username |-> "", user_id |-> 0, client |-> "none",
                              close_calls |-> 0, close_code |-> 0]]
    /\ pc = [c \in Conns |-> "idle"]
    /\ pending = [c \in Conns |-> NoPending]
    /\ reply = [c \in Conns |-> <<>>]
    /\ inbox = [c \in Conns |-> <<>>]
    /\ outbox = [c \in Conns |-> <<>>]
    /\ nframes = [c \in Conns |-> 0]

NextHistory == \E a \in UserIds, b \in UserIds : GetMessages(a, b)

SpecHistory == InitHistory /\ [][NextHistory]_vars

\* ---------------------------------------- the handlers on live connections

\* an open socket of a registered handler
OpenSocket(username, user_id) ==
    [username |-> username, user_id |-> user_id, client |-> "open",
     close_calls |-> 0, close_code |-> 0]

\* both names are registered and logged in and alice is connected on socket
\* 1; socket 2 was not opened, or was opened by '5', or by alice after socket
\* 1 (the entry of alice then holds socket 2); no frame was written yet
InitSession ==
    /\ users = <<User(1, "alice"), User(2, "5")>>
    /\ messages = <<>>
    /\ user_sessions = SetSession(SetSession(EmptyTable, "alice", 1), "5", 2)
    /\ \E second \in 0..2 :
         /\ active_connections =
                IF second = 0
                THEN RegisterConn(EmptyTable, "alice", 1, 1)
                ELSE RegisterConn(RegisterConn(EmptyTable, "alice", 1, 1),
                                  users[second].username, 2, second)
         /\ ws = [c \in Conns |->
                    IF c = 1 THEN OpenSocket("alice", 1)
                    ELSE IF c = 2 /\ second # 0
                         THEN OpenSocket(users[second].username, second)
                         ELSE [username |-> "", user_id |-> 0, client |-> "none",
                               close_calls |-> 0, close_code |-> 0]]
         /\ pc = [c \in Conns |->
                    IF c = 1 \/ (c = 2 /\ second # 0) THEN "recv" ELSE "idle"]
    /\ pending = [c \in Conns |-> NoPending]
    /\ reply = [c \in Conns |-> <<>>]
    /\ inbox = [c \in Conns |-> <<>>]
    /\ outbox = [c \in Conns |-> <<>>]
    /\ nframes = [c \in Conns |-> 0]

\* the clients, the history endpoint and the handler tasks; nobody registers,
\* logs in or connects
NextSession ==
    \/ \E a \in UserIds, b \in UserIds : GetMessages(a, b)
    \/ \E c \in Conns : \E f \in Frames(nframes[c] + 1) : ClientSend(c, f)
    \/ \E c \in Conns : ClientClose(c)
    \/ \E c \in Conns : RecvDisconnect(c)
    \/ \E c \in Conns : RecvMalformed(c)
    \/ \E c \in Conns : RecvNotObject(c)
    \/ \E c \in Conns : RecvOther(c)
    \/ \E c \in Conns : RecvGetOnlineUsers(c)
    \/ \E c \in Conns : RecvSendCommitFails(c)
    \/ \E c \in Conns : RecvSendLookupFails(c)
    \/ \E c \in Conns : RecvSendReloadFails(c)
    \/ \E c \in Conns : RecvSendMessage(c)
    \/ \E c \in Conns : PushRaises(c)
    \/ \E c \in Conns : PushReturns(c)
    \/ \E c \in Conns : PushCommitFails(c)
    \/ \E c \in Conns : PushReloadFails(c)
    \/ \E c \in Conns : ReplyRaises(c)
    \/ \E c \in Conns : ReplyReturns(c)

SpecSession == InitSession /\ [][NextSession]_vars

\* ------------------------------------------ the handlers on queued frames

\* the send_message frames a client has written to its socket, unread yet:
\* tos[k] is the recipient of the k-th
Queued(tos) == [k \in DOMAIN tos |-> SendFrame(Str(tos[k]), k)]

\* alice is connected on socket 1 and '5' on socket 2, both registered and
\* logged in, alice's client has written up to MaxQueued send_message frames,
\* the other client at most one, and neither handler has read one yet
InitOrder ==
    /\ users = <<User(1, "alice"), User(2, "5")>>
    /\ messages = <<>>
    /\ user_sessions = SetSession(SetSession(EmptyTable, "alice", 1), "5", 2)
    /\ active_connections =
           RegisterConn(RegisterConn(EmptyTable, "alice", 1, 1), "5", 2, 2)
    /\ ws = [c \in Conns |->
               IF c <= 2
               THEN [username |-> users[c].username, user_id |-> c, client |-> "open",
                     close_calls |-> 0, close_code |-> 0]
               ELSE [username |-> "", user_id |-> 0, client |-> "none",
                     close_calls |-> 0, close_code |-> 0]]
    /\ pc = [c \in Conns |-> IF c <= 2 THEN "recv" ELSE "idle"]
    /\ pending = [c \in Conns |-> NoPending]
    /\ reply = [c \in Conns |-> <<>>]
    /\ \E n1 \in 0..MaxQueued, n2 \in 0..1 :
         \E tos1 \in [1..n1 -> Names], tos2 \in [1..n2 -> Names] :
           /\ inbox = [c \in Conns |-> IF c = 1 THEN Queued(tos1)
                                       ELSE IF c = 2 THEN Queued(tos2) ELSE <<>>]
           /\ nframes = [c \in Conns |-> IF c = 1 THEN n1 ELSE IF c = 2 THEN n2 ELSE 0]
    /\ outbox = [c \in Conns |-> <<>>]

\* the handler tasks in any interleaving, every database call free to fail;
\* the clients stay connected
NextOrder ==
    \/ \E c \in Conns : RecvSendLookupFails(c)
    \/ \E c \in Conns : RecvSendCommitFails(c)
    \/ \E c \in Conns : RecvSendReloadFails(c)
    \/ \E c \in Conns : RecvSendMessage(c)
    \/ \E c \in Conns : PushReturns(c)
    \/ \E c \in Conns : PushCommitFails(c)
    \/ \E c \in Conns : PushReloadFails(c)
    \/ \E c \in Conns : ReplyReturns(c)

SpecOrder == InitOrder /\ [][NextOrder]_vars

\* mutant: the sender and receiver tests of the count the wrong way round
UnreadCount_Sent(msgs, user_id, partner_id) ==
    Cardinality({i \in 1..Len(msgs) :
        /\ msgs[i].sender_id = user_id
        /\ msgs[i].receiver_id = partner_id
        /\ msgs[i].is_read = 0})

\* main.py:102-106: the unread_count of one partner in GET /chats/{user_id}
UnreadCount(msgs, user_id, partner_id) ==
    Cardinality({i \in 1..Len(msgs) :
        /\ msgs[i].sender_id = partner_id
        /\ msgs[i].receiver_id = user_id
        /\ msgs[i].is_read = 0})

\* main.py:82-85: the ids of everyone user_id sent to or received from
ChatPartnerIds(msgs, user_id) ==
    {msgs[i].receiver_id : i \in {j \in 1..Len(msgs) : msgs[j].sender_id = user_id}}
        \cup {msgs[i].sender_id : i \in {j \in 1..Len(msgs) : msgs[j].receiver_id = user_id}}

\* main.py:92-95: order_by(Message.timestamp.desc()).first() over the rows of
\* the pair; among rows of one timestamp the query does not say which is first
LastMessageRows(msgs, user_id, partner_id) ==
    {i \in 1..Len(msgs) :
        /\ InPair(msgs[i], user_id, partner_id)
        /\ \A j \in 1..Len(msgs) :
               InPair(msgs[j], user_id, partner_id)
               => msgs[j].timestamp <= msgs[i].timestamp}

\* main.py:87-109: the chats GET /chats/{user_id} may return
ChatSummaries(msgs, user_id) ==
    UNION {{[partner_id |-> users[p].id,
             partner_username |-> users[p].username,
             last_message |-> msgs[i].content,
             last_message_time |-> msgs[i].timestamp,
             unread_count |-> UnreadCount(msgs, user_id, p)]
               : i \in LastMessageRows(msgs, user_id, p)}
           : p \in ChatPartnerIds(msgs, user_id) \cap (1..Len(users))}

\* ------------------------------------------------------------ claims

MessageFrames(c, type) ==
    {k \in 1..Len(outbox[c]) : outbox[c][k].type = type}

\* C1: when a connection is registered under a name whose entry holds another
\* socket, the socket evicted from the entry is closed (one close call on it)
C1_EvictedHandleClosed ==
    [][\A u \in Names :
          (/\ u \in DOMAIN active_connections
           /\ u \in DOMAIN active_connections'
           /\ active_connections'[u].websocket # active_connections[u].websocket)
          => ws'[active_connections[u].websocket].close_calls
                 = ws[active_connections[u].websocket].close_calls + 1]_vars

\* C2: the disconnect of a socket that is no longer the one its name's entry
\* holds (it was replaced by a newer connection) leaves the connection table as
\* it is
C2_StaleDisconnectKeepsEntry ==
    [][\A c \in Conns :
          (/\ pc[c] = "recv" /\ inbox[c] = <<>> /\ ws[c].client = "closed"
           /\ pc'[c] = "done"
           /\ ws[c].username \in DOMAIN active_connections
           /\ active_connections[ws[c].username].websocket # c)
          => active_connections' = active_connections]_vars

\* the rows already stored stay, with every column but is_read as written
RowsKept ==
    /\ Len(messages') >= Len(messages)
    /\ \A i \in 1..Len(messages) :
           messages'[i] = [messages[i] EXCEPT !.is_read = messages'[i].is_read]

\* the row handler c is pushing, or has pushed as frame k of socket d
PushedRowStored(c) ==
    /\ pending[c].message_id \in 1..Len(messages)
    /\ LET m == messages[pending[c].message_id]
       IN /\ m.id = pending[c].message_id
          /\ m.sender_id = ws[c].user_id
          /\ \E i \in 1..Len(users) :
                 users[i].username = pending[c].to.text /\ m.receiver_id = users[i].id

FrameRowStored(d, k) ==
    LET f == outbox[d][k]
    IN /\ f.message_id \in 1..Len(messages)
       /\ messages[f.message_id].content = f.message
       /\ messages[f.message_id].sender_id = f.from_id
       /\ messages[f.message_id].timestamp = f.timestamp

\* C3: the row of a message is in the table, unread, when its push starts: a
\* handler awaiting a push, and every new_message frame delivered, refers to a
\* stored row of that sender, recipient and text; the row is appended with
\* is_read = 0 in the step that starts the push, before any frame for it is
\* out; and whatever happens to the handler afterwards the row stays
C3_PersistBeforePush ==
    /\ [](/\ \A c \in Conns : pc[c] = "push" => PushedRowStored(c)
          /\ \A d \in Conns : \A k \in MessageFrames(d, "new_message") :
                 FrameRowStored(d, k))
    /\ [][/\ RowsKept
          /\ \A c \in Conns :
                 (pc[c] # "push" /\ pc'[c] = "push")
                 => /\ Len(messages') = Len(messages) + 1
                    /\ pending'[c].message_id = Len(messages')
                    /\ messages'[Len(messages')].is_read = 0
                    /\ \A d \in Conns :
                           ~ \E k \in 1..Len(outbox'[d]) :
                                 /\ outbox'[d][k].type = "new_message"
                                 /\ outbox'[d][k].message_id = Len(messages')]_vars

\* a handler awaits the push of a row it stored
C3_Witness ==
    \E c \in Conns :
        /\ pc[c] = "push"
        /\ pending[c].message_id \in 1..Len(messages)
        /\ pending[c].target # c

\* C4: when a handler whose own client is still connected stops awaiting the
\* push of a message it stored, it is sending the client the message_sent
\* frame of that message (its id and timestamp)
C4_SendAlwaysAcknowledged ==
    [][\A c \in Conns :
          (pc[c] = "push" /\ pc'[c] # "push" /\ ws[c].client = "open")
          => /\ pc'[c] = "reply"
             /\ reply'[c] = <<MessageSentFrame(pending[c].to,
                                               messages[pending[c].message_id])>>]_vars

\* C5: no step lowers the is_read of a stored row
C5_DeliveryStateMonotonic ==
    [][\A i \in 1..Len(messages) :
          i <= Len(messages') /\ messages'[i].is_read >= messages[i].is_read]_vars

\* a history fetch marked a row while its push is still awaited: the push
\* path's write follows the fetch's
C5_Witness ==
    \E c \in Conns :
        /\ pc[c] = "push"
        /\ pending[c].message_id \in 1..Len(messages)
        /\ messages[pending[c].message_id].is_read = IsReadSet

\* handler c returns from the push of row i in this step
PushReturned(c, i) ==
    pc[c] = "push" /\ pending[c].message_id = i /\ pc'[c] # "push"

\* C6: a message stored while its recipient's name is not in the connection
\* table is stored unread and no push of it starts; and a row leaves is_read = 0
\* only in a history fetch by its receiver with its sender, or when the push of
\* that row returns
C6_OfflineStaysSentUntilFetch ==
    [][/\ \A c \in Conns :
             (/\ pc[c] = "recv" /\ inbox[c] # <<>>
              /\ inbox'[c] # inbox[c]
              /\ Head(inbox[c]).action = "send_message"
              /\ Head(inbox[c]).to.text \notin DOMAIN active_connections
              /\ Len(messages') = Len(messages) + 1)
             => /\ messages'[Len(messages')].is_read = 0
                /\ pc'[c] # "push"
                /\ \A d \in Conns : MessageFrames(d, "new_message")
                                        = {k \in 1..Len(outbox'[d]) :
                                              outbox'[d][k].type = "new_message"}
       /\ \A i \in 1..Len(messages) :
             (messages[i].is_read = 0 /\ messages'[i].is_read # 0)
             => \/ \E c \in Conns : PushReturned(c, i)
                \/ /\ messages' = MarkRead(messages, messages[i].receiver_id,
                                              messages[i].sender_id)
                   /\ UNCHANGED <<pc, pending, reply, inbox, outbox,
                                  active_connections>>]_vars

\* a message was acknowledged to its sender and its row is still unread: it
\* was sent to a recipient who was not connected
C6_Witness ==
    \E c \in Conns : \E k \in MessageFrames(c, "message_sent") :
        /\ messages[outbox[c][k].message_id].is_read = 0
        /\ pc[c] = "recv"
        /\ messages[outbox[c][k].message_id].receiver_id # ws[c].user_id

\* C7: when the push of an unread row returns and the row is updated, the row
\* is in a state other than read: it still counts in the recipient's
\* unread_count for the sender
C7_PushedIsDeliveredNotRead ==
    [][\A c \in Conns :
          (/\ pc[c] = "push" /\ pc'[c] = "reply"
           /\ messages[pending[c].message_id].is_read = 0
           /\ messages[pending[c].message_id].receiver_id # ws[c].user_id)
          => LET m == messages[pending[c].message_id]
             IN UnreadCount(messages', m.receiver_id, m.sender_id) >= 1]_vars

\* what history(requester, partner) is to do to row m
ReadBy(m, requester, partner) ==
    IF m.sender_id = partner /\ m.receiver_id = requester /\ m.is_read = 0
    THEN [m EXCEPT !.is_read = 1]
    ELSE m

\* C8: a history fetch by requester u with partner p sets is_read on exactly
\* the unread rows sent by p to u and leaves every other row, and the number of
\* rows, as they were: in every table and for every u and p; and every step
\* that changes the table without a handler moving is such a fetch
C8_HistoryMarksOnlyReceived ==
    /\ [](\A u \in UserIds, p \in UserIds :
            LET after == MarkRead(messages, u, p)
            IN /\ Len(after) = Len(messages)
               /\ \A i \in 1..Len(messages) : after[i] = ReadBy(messages[i], u, p))
    /\ [][(messages' # messages /\ UNCHANGED <<pc, inbox>>)
            => \E u \in UserIds, p \in UserIds :
                   /\ Len(messages') = Len(messages)
                   /\ \A i \in 1..Len(messages) :
                          messages'[i] = ReadBy(messages[i], u, p)]_vars

\* unread messages are stored in both directions between two users: the
\* fetch by u with p marks the one u received and leaves the one u sent
C8_Witness ==
    \E i \in 1..Len(messages), j \in 1..Len(messages) :
        LET u == messages[i].receiver_id
            p == messages[i].sender_id
        IN /\ u # p
           /\ messages[j].sender_id = u /\ messages[j].receiver_id = p
           /\ messages[i].is_read = 0 /\ messages[j].is_read = 0
           /\ MarkRead(messages, u, p)[i].is_read = IsReadSet
           /\ MarkRead(messages, u, p)[j].is_read = 0

Ids(rows) == [k \in 1..Len(rows) |-> rows[k].id]

\* C9 as claimed: after history(A, B), history(B, A) changes no row and returns
\* the same messages
C9_RefetchChangesNothing ==
    \A a \in UserIds, b \in UserIds :
        LET s1 == MarkRead(messages, a, b)
            s2 == MarkRead(s1, b, a)
        IN /\ s2 = s1
           /\ Ids(MessagesResponse(s1, b, a)) = Ids(MessagesResponse(messages, a, b))

\* C9 as amended: after history(A, B), history(B, A) changes no row except
\* that the unread rows sent by A to B become read, and returns the same
\* messages in the same order: all rows of the pair, both directions, each
\* once, in ascending time order
C9_RefetchMarksOnlyOwnReceived ==
    \A a \in UserIds, b \in UserIds :
        LET s1 == MarkRead(messages, a, b)
            s2 == MarkRead(s1, b, a)
            r1 == MessagesResponse(messages, a, b)
            r2 == MessagesResponse(s1, b, a)
        IN /\ Len(s2) = Len(s1)
           /\ \A i \in 1..Len(s1) : s2[i] = ReadBy(s1[i], b, a)
           /\ Ids(r2) = Ids(r1)
           /\ {r1[k].id : k \in 1..Len(r1)}
                 = {i \in 1..Len(messages) : InPair(messages[i], a, b)}
           /\ \A k \in 1..Len(r1) : \A l \in 1..Len(r1) :
                 k < l => /\ r1[k].timestamp <= r1[l].timestamp
                          /\ r1[k].id # r1[l].id

\* a has fetched history(a, b): what a received from b is read, what a sent to
\* b is still unread and was stored after it with an earlier timestamp; b's
\* fetch has that row to mark and returns both rows, the later id first
C9_Witness ==
    \E a \in UserIds, b \in UserIds :
        \E i \in 1..Len(messages), j \in 1..Len(messages) :
            /\ a # b /\ i < j
            /\ messages[i].sender_id = b /\ messages[i].receiver_id = a
            /\ messages[i].is_read = IsReadSet
            /\ messages[j].sender_id = a /\ messages[j].receiver_id = b
            /\ messages[j].is_read = 0
            /\ messages[j].timestamp < messages[i].timestamp
            /\ MarkRead(messages, a, b) = messages
            /\ MarkRead(messages, b, a) # messages
            /\ Len(MessagesResponse(messages, b, a)) >= 2
            /\ MessagesResponse(messages, b, a)[1].id > MessagesResponse(messages, b, a)[2].id

\* the name is no row of the users table
UnknownName(name) == \A i \in 1..Len(users) : users[i].username # name

\* C10: when a handler whose client is connected takes a send_message frame
\* whose "to" is no user, the frame it sends its client is the error frame and
\* nothing else changes: no row is stored, no push starts, no socket gets
\* another frame, the connection table is as before and the handler goes on;
\* and the error frame is what the client then gets
C10_UnknownRecipientNoMutation ==
    [][\A c \in Conns :
          /\ (/\ pc[c] = "recv" /\ inbox[c] # <<>>
              /\ inbox'[c] # inbox[c] /\ nframes' = nframes
              /\ Head(inbox[c]).action = "send_message"
              /\ UnknownName(Head(inbox[c]).to.text)
              /\ ws[c].client = "open")
             => /\ pc' = [pc EXCEPT ![c] = "reply"]
                /\ reply' = [reply EXCEPT ![c] = <<ErrorFrame(Head(inbox[c]).to)>>]
                /\ inbox' = [inbox EXCEPT ![c] = Tail(@)]
                /\ UNCHANGED <<messages, users, user_sessions, active_connections,
                               pending, ws, outbox>>
          /\ (/\ pc[c] = "reply" /\ pc'[c] # "reply"
              /\ reply[c][1].type = "error"
              /\ ws[c].client = "open")
             => /\ outbox' = [outbox EXCEPT ![c] = Append(@, reply[c][1])]
                /\ pc' = [pc EXCEPT ![c] = "recv"]
                /\ UNCHANGED <<messages, users, user_sessions, active_connections,
                               pending, ws, inbox>>]_vars

\* socket c was opened and its handler found no session for its name
Rejected(c) == pc[c] # "idle" /\ ws[c].user_id = 0

\* C11: a socket opened under a name that has no session is closed once, with
\* code 1008, in the step that opens it, its handler is over and the connection
\* table is as before; and from then on no entry of the table holds it, it
\* takes no frame and gets none, whatever its name does later
C11_UnauthenticatedNeverActive ==
    /\ [][\A c \in Conns :
             (/\ pc[c] = "idle" /\ pc'[c] # "idle"
              /\ ws'[c].username \notin DOMAIN user_sessions)
             => /\ pc'[c] = "done"
                /\ ws'[c].close_code = 1008
                /\ ws'[c].close_calls = 1
                /\ ws'[c].client = "closed"
                /\ ws'[c].user_id = 0
                /\ active_connections' = active_connections]_vars
    /\ [](\A c \in Conns :
            Rejected(c)
            => /\ pc[c] = "done"
               /\ ws[c].close_code = 1008
               /\ \A u \in DOMAIN active_connections :
                      active_connections[u].websocket # c
               /\ inbox[c] = <<>> /\ outbox[c] = <<>> /\ nframes[c] = 0
               /\ reply[c] = <<>>
               /\ \A d \in Conns : pending[d].target # c)

\* a socket was rejected, its name logged in afterwards and is online through
\* another socket: the rejected one is still out
C11_Witness ==
    \E c \in Conns :
        /\ Rejected(c)
        /\ ws[c].username \in DOMAIN user_sessions
        /\ ws[c].username \in DOMAIN active_connections

\* C12: when a handler takes a frame that is a JSON object and whose action is
\* neither send_message nor get_online_users, nothing but the frame's removal happens:
\* no socket gets a frame, the messages, the users, the sessions and the
\* connection table are as before, no push starts and every handler, this one
\* included, stays where it was
C12_UnknownActionIgnored ==
    [][\A c \in Conns :
          (/\ pc[c] = "recv" /\ inbox[c] # <<>>
           /\ inbox'[c] # inbox[c] /\ nframes' = nframes
           /\ Head(inbox[c]).action
                 \notin {"send_message", "get_online_users", "malformed", "notobject"})
          => /\ inbox' = [inbox EXCEPT ![c] = Tail(@)]
             /\ pc'[c] = "recv"
             /\ UNCHANGED <<outbox, messages, users, user_sessions,
                            active_connections, pc, ws, pending, reply>>]_vars

\* a connected client's only frame was taken and left no trace: no frame came
\* back, no row was stored, and its handler is registered and awaits the next
C12_Witness ==
    \E c \in Conns :
        /\ pc[c] = "recv" /\ ws[c].client = "open"
        /\ nframes[c] = 1 /\ inbox[c] = <<>> /\ outbox[c] = <<>>
        /\ messages = <<>>
        /\ ws[c].username \in DOMAIN active_connections
        /\ active_connections[ws[c].username].websocket = c

\* C13: when a handler takes a frame that does not parse (or parses to a value
\* that is no JSON object), the handler is over
\* and its socket closed in that step, its name is out of the connection
\* table, no row is stored, nobody gets a frame and no push starts; and a
\* handler that is over stays over: the frames still queued on its socket are
\* gone and it takes and gets no frame any more
C13_MalformedFrameCloses ==
    [][\A c \in Conns :
          /\ (/\ pc[c] = "recv" /\ inbox[c] # <<>>
              /\ inbox'[c] # inbox[c] /\ nframes' = nframes
              /\ Head(inbox[c]).action \in {"malformed", "notobject"})
             => /\ pc'[c] = "done"
                /\ ws'[c].client = "closed"
                /\ ws[c].username \notin DOMAIN active_connections'
                /\ messages' = messages
                /\ outbox' = outbox
                /\ pending' = pending
                /\ \A d \in Conns : d # c => pc'[d] = pc[d]
          /\ pc[c] = "done"
             => /\ pc'[c] = "done"
                /\ inbox'[c] = <<>>
                /\ outbox'[c] = outbox[c]]_vars

\* a frame that does not parse is the next one a registered handler takes
\* (taking it is then the handler's only step)
C13_Witness ==
    \E c \in Conns :
        /\ pc[c] = "recv" /\ inbox[c] # <<>>
        /\ Head(inbox[c]).action = "malformed"
        /\ ws[c].username \in DOMAIN active_connections
        /\ active_connections[ws[c].username].websocket = c

\* C14: when receive_text reports to a handler that its client is gone, the
\* handler is over and its socket closed, its name is out of the connection
\* table when the entry held this socket, and the step changes no row of
\* messages and sends nobody a frame
C14_DisconnectDeregisters ==
    [][\A c \in Conns :
          (/\ pc[c] = "recv" /\ inbox[c] = <<>> /\ ws[c].client = "closed"
           /\ pc'[c] # pc[c])
          => /\ pc'[c] = "done"
             /\ ws'[c].client = "closed"
             /\ (/\ ws[c].username \in DOMAIN active_connections
                 /\ active_connections[ws[c].username].websocket = c)
                => ws[c].username \notin DOMAIN active_connections'
             /\ \A u \in DOMAIN active_connections' :
                    /\ u \in DOMAIN active_connections
                    /\ active_connections'[u] = active_connections[u]
             /\ messages' = messages
             /\ outbox' = outbox]_vars

\* a registered handler is over whose client never submitted a frame (it took
\* the disconnect): its name is out of the table, and the message it was
\* pushed is stored as the push left it
C14_Witness ==
    \E c \in Conns :
        /\ pc[c] = "done" /\ ws[c].user_id # 0
        /\ nframes[c] = 0
        /\ ws[c].username \notin DOMAIN active_connections
        /\ MessageFrames(c, "new_message") # {}
        /\ \E i \in 1..Len(messages) :
               messages[i].receiver_id = ws[c].user_id /\ messages[i].is_read = IsReadSet

\* C15: the rows of one sender are stored in the order its client submitted
\* the frames (the texts are the submission numbers on the sender's socket):
\* among the rows of a sender a later row has a later text, whatever the other
\* handler does in between; and a handler takes a frame of its socket only
\* when it is back at receive_text, the oldest first
C15_PersistedInSubmissionOrder ==
    /\ [](\A i \in 1..Len(messages), j \in 1..Len(messages) :
            (i < j /\ messages[i].sender_id = messages[j].sender_id)
            => messages[i].content < messages[j].content)
    /\ [][\A c \in Conns :
             inbox'[c] # inbox[c]
             => /\ pc[c] = "recv" \/ pc'[c] = "done"
                /\ pc'[c] # "done" => inbox'[c] = Tail(inbox[c])
                /\ Len(messages') > Len(messages)
                   => /\ messages'[Len(messages')].content = Head(inbox[c]).message
                      /\ messages'[Len(messages')].sender_id = ws[c].user_id]_vars

\* the first and the second message of one sender are stored, and a message
\* of the other sender was stored between them
C15_Witness ==
    \E i \in 1..Len(messages), j \in 1..Len(messages), k \in 1..Len(messages) :
        /\ i < j /\ j < k
        /\ messages[i].sender_id = messages[k].sender_id
        /\ messages[j].sender_id # messages[i].sender_id
        /\ messages[i].content = 1 /\ messages[k].content = 2

\* the rows sent by partner to identity that are not in the state Read
NotRead(identity, partner) ==
    {i \in 1..Len(messages) :
        /\ messages[i].sender_id = partner
        /\ messages[i].receiver_id = identity
        /\ messages[i].is_read # IsReadSet}

\* C16: in every table and for every user, the chats list one partner for
\* each user a row links to this one; a partner's unread_count is the number
\* of rows it sent to the user that are not Read, and its last_message and
\* last_message_time are those of a row of the pair that no row of the pair is
\* later than; and right after the user fetches the history with a partner,
\* that partner's unread_count is 0
C16_SummaryCountsUnread ==
    /\ [](\A u \in UserIds :
            /\ {ch.partner_id : ch \in ChatSummaries(messages, u)}
                  = {p \in UserIds : \E i \in 1..Len(messages) :
                                         InPair(messages[i], u, p)}
            /\ \A ch \in ChatSummaries(messages, u) :
                  /\ ch.unread_count = Cardinality(NotRead(u, ch.partner_id))
                  /\ \E i \in 1..Len(messages) :
                        /\ {messages[i].sender_id, messages[i].receiver_id}
                              = {u, ch.partner_id}
                        /\ messages[i].content = ch.last_message
                        /\ messages[i].timestamp = ch.last_message_time
                        /\ \A j \in 1..Len(messages) :
                              {messages[j].sender_id, messages[j].receiver_id}
                                  = {u, ch.partner_id}
                              => messages[j].timestamp <= messages[i].timestamp)
    /\ [][\A u \in UserIds, p \in UserIds :
             messages' = MarkRead(messages, u, p)
             => \A ch \in ChatSummaries(messages', u) :
                    ch.partner_id = p => ch.unread_count = 0]_vars

\* the one stored row was sent by a to b and is unread: b's chats are the one
\* with a, unread_count 1 and that row as last message, and after b's fetch of
\* the history with a the chat shows unread_count 0
C16_Witness ==
    \E a \in UserIds, b \in UserIds :
        /\ a # b
        /\ Len(messages) = 1
        /\ messages[1].sender_id = a /\ messages[1].receiver_id = b
        /\ messages[1].is_read = 0
        /\ ChatSummaries(messages, b)
              = {[partner_id |-> a, partner_username |-> users[a].username,
                  last_message |-> messages[1].content,
                  last_message_time |-> messages[1].timestamp,
                  unread_count |-> 1]}
        /\ \A ch \in ChatSummaries(MarkRead(messages, b, a), b) : ch.unread_count = 0
        /\ ChatSummaries(MarkRead(messages, b, a), b) # {}

\* C17: when a handler whose client is connected stops awaiting a push to
\* another user's socket whose peer is gone, and the row it stored is left
\* unread (the push did not go through), the handler is sending its client
\* the message_sent frame of the row and the connection table is as before
C17_PushFailureSwallowed ==
    [][\A c \in Conns :
          (/\ pc[c] = "push" /\ pc'[c] # "push"
           /\ ws[c].client = "open"
           /\ messages[pending[c].message_id].receiver_id # ws[c].user_id
           /\ ~ PeerThere(pending[c].target)
           /\ messages'[pending[c].message_id].is_read = 0)
          => /\ pc'[c] = "reply"
             /\ reply'[c] = <<MessageSentFrame(pending[c].to,
                                               messages[pending[c].message_id])>>
             /\ active_connections' = active_connections]_vars

\* C19: when a handler whose client is connected takes a send_message frame
\* to a known user and no row is stored for it (the commit failed), it starts
\* no push and the frame it sends its client is an error frame, no
\* message_sent frame
C19_PersistFailureReported ==
    [][\A c \in Conns :
          (/\ pc[c] = "recv" /\ inbox[c] # <<>>
           /\ inbox'[c] # inbox[c] /\ nframes' = nframes
           /\ Head(inbox[c]).action = "send_message"
           /\ ~ UnknownName(Head(inbox[c]).to.text)
           /\ ws[c].client = "open"
           /\ messages' = messages)
          => /\ pc'[c] = "reply"
             /\ Len(reply'[c]) = 1
             /\ reply'[c][1].type = "error"
             /\ outbox' = outbox]_vars

\* C18: a handler that awaits the push to another user's socket whose client
\* has stopped reading eventually is back at receive_text with the message_sent frame
\* delivered to its client, as long as its own client stays connected
C18_PushNeverBlocksSender ==
    \A c \in Conns :
        (/\ pc[c] = "push"
         /\ ws[c].client = "open"
         /\ ws[pending[c].target].client = "stalled"
         /\ ws[pending[c].target].user_id # ws[c].user_id)
        ~> \/ pc[c] = "recv" /\ MessageFrames(c, "message_sent") # {}
           \/ ws[c].client # "open"

\* C20: every entry of the connection table holds a socket opened under the
\* entry's name whose handler is still running, and the socket a push is
\* started to has a running handler at that moment
C20_EntriesHaveRunningHandlers ==
    /\ [](\A u \in DOMAIN active_connections :
            /\ pc[active_connections[u].websocket] \in Running
            /\ ws[active_connections[u].websocket].username = u
            /\ ws[active_connections[u].websocket].user_id
                  = active_connections[u].user_id)
    /\ [][\A c \in Conns :
             (pc[c] # "push" /\ pc'[c] = "push")
             => /\ pending'[c].target \in Conns
                /\ pc[pending'[c].target] \in Running]_vars

\* a name connected twice and the handler of one of its sockets is over: the
\* name's entry went with it, while the other socket's handler still runs
C20_Witness ==
    \E c \in Conns, d \in Conns :
        /\ c # d
        /\ ws[c].username = ws[d].username
        /\ pc[c] = "done" /\ ws[c].user_id # 0
        /\ pc[d] = "recv" /\ ws[d].client = "open"
        /\ ws[d].username \notin DOMAIN active_connections
====
